---- MODULE Spec2Model ----
(***************************************************************************)
(* The voice-chat components of csci3280-project-frontend as state         *)
(* machines.  Each source file holds one variant of the VoiceChat          *)
(* component; `variant` says which one is mounted:                         *)
(*   "p0"  src/unnamed/part_000   explicit status, recordAudio() helper    *)
(*   "mp"  src/frontend/my-project/src/main-page.tsx  react-media-recorder *)
(*   "p1"  src/unnamed/part_001 (first component)  raw MediaRecorder       *)
(*   "p2"  src/unnamed/part_002   useAudioRecorder hook                    *)
(* React state is rendered as soon as it is set: a click always runs the   *)
(* handler that closes over the current state.  Every await of a handler   *)
(* is a separate step, so handlers interleave at their awaits.             *)
(***************************************************************************)
EXTENDS Integers, Sequences, FiniteSets, TLC

\* part_000: mic clicks (invocations of toggleRecording) explored per session.
MaxClicks == 4

\* The other components: recordings and text sends explored per session.
MaxOps == 2

\* Hex round trip: longest byte sequence that is encoded and decoded.
MaxHexLen == 3

VARIABLES
    variant,        \* which component is mounted
    mounted,        \* the component is mounted (state setters act only then)
    status,         \* p0: useState status; mp: status of useReactMediaRecorder
    isRecording,    \* p1: useState isRecording; p2: isRecording of useAudioRecorder
    recordingBlob,  \* p2: recordingBlob of useAudioRecorder
    isLoading,      \* useState isLoading
    messages,       \* useState messages: sequence of [role, content]
    transcript,     \* useState transcript (text field)
    playbackError,  \* p0: useState playbackError ("null" when null)
    ops,            \* asynchronous handler invocations: op id -> [pc, blob, ok]
    nops,           \* number of handler invocations started
    recorders,      \* MediaRecorder objects: id -> [state, onstop, startPending]
    mediaRecorder,  \* p0: closure variable of recordAudio(); p1: mediaRecorderRef.current
    audioChunks,    \* p0: closure variable of recordAudio(); p1: audioChunksRef.current
    audios,         \* Audio elements created so far: [state, revoked, bytes]
    audioRef,       \* p0: audioRef.current, index into audios, 0 when null
    requests,       \* outbound fetch calls issued so far, in order
    ev,             \* the handler step taken last: [name, arg]
    isListening,    \* part_001, second component: useState isListening
    hexBytes,       \* hex round trip: the bytes that are encoded
    hexString,      \* hex round trip: their encoding, the audio field
    hexResult       \* hex round trip: what a decoder made of hexString

vars == <<variant, mounted, status, isRecording, recordingBlob, isLoading,
          messages, transcript, playbackError, ops, nops, recorders,
          mediaRecorder, audioChunks, audios, audioRef, requests, ev,
          isListening, hexBytes, hexString, hexResult>>

\* What the recorder components do not have or never change: the variant that
\* is mounted, the flag of the speech-recognition component and the values of
\* the hex round trip.
unused == <<variant, isListening, hexBytes, hexString, hexResult>>

\* Identities of the invocations, and of the MediaRecorder each may create.
P0_OpIds == 1..MaxClicks
OpIds == 1..MaxOps

----------------------------------------------------------------------------
(* Values *)

\* A text is a sequence of pieces: typed text is one character per piece, a
\* literal of the source or of the remote service is kept as one piece.
Msg(role, content) == [role |-> role, content |-> content]

\* A Blob delivered by recorder rec in a dataavailable event.
Chunk(rec, size) == [rec |-> rec, size |-> size]

\* Blob.size of new Blob(chunks).
RECURSIVE BlobSize(_)
BlobSize(chunks) ==
    IF chunks = <<>> THEN 0 ELSE Head(chunks).size + BlobSize(Tail(chunks))

\* An asynchronous invocation: where it is suspended (pc), the Blob it carries
\* (the recorder chunks it was built from) and response.ok once fetch resolved.
NewOp(pc) == [pc |-> pc, blob |-> <<>>, ok |-> TRUE]
NoOp == NewOp("none")
DoneOp == NewOp("done")
NoRecorder == [state |-> "none", onstop |-> 0, startPending |-> FALSE]

\* What a hex decoder gave: the decoder, whether it threw, the bytes if not.
Result(by, threw, bytes) == [by |-> by, threw |-> threw, bytes |-> bytes]
NoResult == Result("none", FALSE, <<>>)

\* Message texts of part_000.
P0_NoAudioText == <<"No audio recorded. Please try again.">>
P0_SendErrorText == <<"Error: Could not process audio. Please try again.">>
P0_RecordErrorText == <<"Sorry, I couldn't record audio. Please try again.">>
P0_BlockedText == "Audio playback blocked. Click to play response."

\* The audio field of a response body: absent, or a string of characters.
NoAudio == [present |-> FALSE, hex |-> <<>>]
Audio(hex) == [present |-> TRUE, hex |-> hex]
AudioFields == {NoAudio, Audio(<<>>), Audio(<<"4", "8", "6", "5">>)}

\* Response bodies the remote service may return (parsed JSON).
Bodies ==
    {[status |-> "success", transcript |-> <<"hello">>,
      response_text |-> <<"hi there">>,
      audio |-> a] : a \in AudioFields}
    \cup {[status |-> "error", transcript |-> <<>>, response_text |-> <<>>,
           audio |-> NoAudio]}

\* No response body.
NoBody == [status |-> "none", transcript |-> <<>>, response_text |-> <<>>,
           audio |-> NoAudio]

\* The label of a handler step, with the response body it handled, if any.
EvData(name, arg, data) == [name |-> name, arg |-> arg, data |-> data]
Ev(name, arg) == EvData(name, arg, NoBody)

\* The label of a step that is no handler's outcome.
Step == Ev("step", "")

\* How response.json() settles: a parsed body, or a rejection.
JsonOutcomes == {[valid |-> TRUE, data |-> b] : b \in Bodies}
                \cup {[valid |-> FALSE, data |-> NoBody]}

\* Sizes of the data a recorder delivers when it stops.
ChunkSizes == {0, 1}

\* How fetch settles: rejects, or resolves with response.ok false or true.
FetchOutcomes == {"reject", "not_ok", "ok"}

----------------------------------------------------------------------------
(* Hex decoding *)

\* The digits that hex encoding writes.
HexDigits == <<"0", "1", "2", "3", "4", "5", "6", "7", "8", "9",
               "a", "b", "c", "d", "e", "f">>

\* The upper-case forms, which parseInt reads as well.
HexDigitsUpper == <<"0", "1", "2", "3", "4", "5", "6", "7", "8", "9",
                    "A", "B", "C", "D", "E", "F">>

\* Value of one hex character, -1 when it is none (parseInt stops there).
HexVal(c) ==
    IF \E i \in 1..Len(HexDigits) : HexDigits[i] = c
    THEN (CHOOSE i \in 1..Len(HexDigits) : HexDigits[i] = c) - 1
    ELSE IF \E i \in 1..Len(HexDigitsUpper) : HexDigitsUpper[i] = c
         THEN (CHOOSE i \in 1..Len(HexDigitsUpper) : HexDigitsUpper[i] = c) - 1
         ELSE -1

\* White space and line terminators of ECMAScript, which trim and parseInt
\* strip.  A character that has no escape in a string of this module is
\* written as the piece "U+" followed by its code point.
LineTerminators == {"\n", "\r", "U+2028", "U+2029"}

WhiteSpace ==
    {" ", "\t", "\f", "U+000B", "U+00A0", "U+FEFF", "U+1680", "U+2000", "U+2001",
     "U+2002", "U+2003", "U+2004", "U+2005", "U+2006", "U+2007", "U+2008",
     "U+2009", "U+200A", "U+202F", "U+205F", "U+3000"}

\* The characters that trim and parseInt strip.
StrWhiteSpace == WhiteSpace \cup LineTerminators

IsSpace(c) == c \in StrWhiteSpace

RECURSIVE TrimLeft(_)
TrimLeft(s) ==
    IF s = <<>> THEN s
    ELSE IF IsSpace(Head(s)) THEN TrimLeft(Tail(s)) ELSE s

RECURSIVE TrimRight(_)
TrimRight(s) ==
    IF s = <<>> THEN s
    ELSE IF IsSpace(s[Len(s)]) THEN TrimRight(SubSeq(s, 1, Len(s) - 1)) ELSE s

\* String.prototype.trim.
Trim(s) == TrimRight(TrimLeft(s))

\* The value of the longest prefix of s made of hex digits, acc being the
\* value of the digits read so far.
RECURSIVE HexPrefixValue(_, _)
HexPrefixValue(s, acc) ==
    IF s = <<>> \/ HexVal(Head(s)) < 0 THEN acc
    ELSE HexPrefixValue(Tail(s), 16 * acc + HexVal(Head(s)))

\* parseInt(s, 16): leading white space, a sign and a prefix 0x or 0X are
\* skipped, then the digits are read up to the first character that is none;
\* NaN when there is no digit.
ParseInt16(s) ==
    LET t == TrimLeft(s)
        negative == t # <<>> /\ Head(t) = "-"
        u == IF t # <<>> /\ Head(t) \in {"+", "-"} THEN Tail(t) ELSE t
        v == IF Len(u) >= 2 /\ u[1] = "0" /\ u[2] \in {"x", "X"}
             THEN SubSeq(u, 3, Len(u)) ELSE u
        magnitude == HexPrefixValue(v, 0)
    IN  IF v = <<>> \/ HexVal(Head(v)) < 0
        THEN [nan |-> TRUE, value |-> 0]
        ELSE [nan |-> FALSE, value |-> IF negative THEN 0 - magnitude ELSE magnitude]

\* parseInt(pair, 16) stored into a Uint8Array cell: NaN is stored as 0, a
\* number modulo 256.
ParseHexByte(pair) ==
    LET n == ParseInt16(pair)
    IN  IF n.nan THEN 0 ELSE ((n.value % 256) + 256) % 256

\* audioHex.substr(i, 2) with a 0-based i.
Substr2(s, i) == SubSeq(s, i + 1, IF i + 2 <= Len(s) THEN i + 2 ELSE Len(s))

\* The hex string of a byte sequence written with the given digits: two
\* characters per byte, the high nibble first.
HexEncodeWith(digits, b) ==
    [k \in 1..(2 * Len(b)) |->
        LET byte == b[(k + 1) \div 2]
        IN  IF k % 2 = 1 THEN digits[(byte \div 16) + 1]
            ELSE digits[(byte % 16) + 1]]

\* The hex string as the audio field carries it, in lower case.
HexEncode(b) == HexEncodeWith(HexDigits, b)

\* Byte values and byte sequences that are encoded.
HexByteValues == {0, 1, 15, 16, 127, 171, 255}
ByteSeqs == UNION {[1..n -> HexByteValues] : n \in 0..MaxHexLen}

\* A loop that reads the low nibble first.
P0_hexDecode_lowFirst(audioHex) ==
    [k \in 1..(Len(audioHex) \div 2) |->
        LET pair == Substr2(audioHex, 2 * (k - 1))
        IN  ParseHexByte(<<pair[2], pair[1]>>)]

\* The loop of playAudioResponse: buffer = new Uint8Array(length / 2), and
\* buffer[i/2] = parseInt(audioHex.substr(i, 2), 16) for i = 0, 2, 4, ...
\* A write past the end of the typed array is dropped.
P0_hexDecode(audioHex) ==
    [k \in 1..(Len(audioHex) \div 2) |-> ParseHexByte(Substr2(audioHex, 2 * (k - 1)))]

----------------------------------------------------------------------------
(* Audio elements *)

\* States of an Audio element: "pending" (play() called, its promise not yet
\* settled), "playing", "blocked" (play() rejected, never started), "aborted"
\* (paused while pending, the rejection not yet delivered), "paused" (paused
\* while playing), "ended".
\* HTMLAudioElement.pause(): a pending play() promise is rejected (AbortError),
\* which is delivered later.
Paused(a) ==
    [a EXCEPT !.state = IF a.state = "pending" THEN "aborted"
                        ELSE IF a.state = "playing" THEN "paused"
                        ELSE a.state]

NewAudio(bytes) == [state |-> "pending", revoked |-> FALSE, bytes |-> bytes]

\* Audio elements that are audible right now.
Playing == {i \in 1..Len(audios) : audios[i].state = "playing"}

----------------------------------------------------------------------------
(* part_000: explicit status, recordAudio() helper *)

\* What part_000 does not have or never changes.
P0_unused == <<unused, mounted, isRecording, recordingBlob>>

\* The mic Button's disabled attribute, negated.
P0_micEnabled == ~(isLoading \/ status = "processing")

\* A finally that clears isLoading only.
P0_finally_keepsStatus ==
    /\ isLoading' = FALSE
    /\ status' = status

\* finally of handleSendAudio.
P0_finally ==
    /\ isLoading' = FALSE
    /\ status' = "idle"

\* An empty-blob branch that forgets setStatus("idle").
P0_handleSendAudio_empty_keepsStatus(o) ==
    /\ messages' = Append(messages, Msg("assistant", P0_NoAudioText))
    /\ isLoading' = FALSE
    /\ status' = status
    /\ ops' = [ops EXCEPT ![o] = DoneOp]
    /\ ev' = Ev("handleSendAudio", "empty")
    /\ UNCHANGED requests

\* handleSendAudio, the branch for a missing or empty blob.
P0_handleSendAudio_empty(o) ==
    /\ messages' = Append(messages, Msg("assistant", P0_NoAudioText))
    /\ isLoading' = FALSE
    /\ status' = "idle"
    /\ ops' = [ops EXCEPT ![o] = DoneOp]
    /\ ev' = Ev("handleSendAudio", "empty")
    /\ UNCHANGED requests

\* handleSendAudio up to its first await: the request is issued.
P0_handleSendAudio_fetch(o) ==
    /\ isLoading' = TRUE
    /\ status' = "processing"
    /\ requests' = Append(requests, [kind |-> "audio", format |-> "wav",
                                     payload |-> ops[o].blob])
    /\ ops' = [ops EXCEPT ![o].pc = "fetch"]
    /\ ev' = Ev("handleSendAudio", "fetch")
    /\ UNCHANGED messages

\* A catch that sets the log to the failure message instead of appending it.
P0_handleSendAudio_catch_resets(o, why) ==
    /\ messages' = <<Msg("assistant", P0_SendErrorText)>>
    /\ P0_finally
    /\ ops' = [ops EXCEPT ![o] = DoneOp]
    /\ ev' = Ev("handleSendAudio.catch", why)
    /\ UNCHANGED <<audios, audioRef>>

\* catch and finally of handleSendAudio.
P0_handleSendAudio_catch(o, why) ==
    /\ messages' = Append(messages, Msg("assistant", P0_SendErrorText))
    /\ P0_finally
    /\ ops' = [ops EXCEPT ![o] = DoneOp]
    /\ ev' = Ev("handleSendAudio.catch", why)
    /\ UNCHANGED <<audios, audioRef>>

\* A playAudioResponse without the release of the previous element.
P0_playAudioResponse_noRelease(audioHex) ==
    /\ audios' = Append(audios, NewAudio(P0_hexDecode(audioHex)))
    /\ audioRef' = Len(audios) + 1

\* playAudioResponse: decode, release the previous element, create and start
\* the new one.
P0_playAudioResponse(audioHex) ==
    LET buffer == P0_hexDecode(audioHex)
        released == IF audioRef = 0 THEN audios
                    ELSE [audios EXCEPT ![audioRef] =
                              [Paused(@) EXCEPT !.revoked = TRUE]]
    IN  /\ audios' = Append(released, NewAudio(buffer))
        /\ audioRef' = Len(audios) + 1

\* A success branch that appends the reply before the transcript.
P0_handleSendAudio_success_swapped(o, data) ==
    /\ messages' = messages \o <<Msg("assistant", data.response_text),
                                 Msg("user", data.transcript)>>
    /\ IF data.audio.present /\ Len(data.audio.hex) > 0
       THEN P0_playAudioResponse(data.audio.hex)
       ELSE UNCHANGED <<audios, audioRef>>
    /\ P0_finally
    /\ ops' = [ops EXCEPT ![o] = DoneOp]
    /\ ev' = EvData("handleSendAudio.success", "", data)

\* handleSendAudio after response.json() gave a body with status "success".
P0_handleSendAudio_success(o, data) ==
    /\ messages' = messages \o <<Msg("user", data.transcript),
                                 Msg("assistant", data.response_text)>>
    /\ IF data.audio.present /\ Len(data.audio.hex) > 0
       THEN P0_playAudioResponse(data.audio.hex)
       ELSE UNCHANGED <<audios, audioRef>>
    /\ P0_finally
    /\ ops' = [ops EXCEPT ![o] = DoneOp]
    /\ ev' = EvData("handleSendAudio.success", "", data)

\* A catch of toggleRecording that forgets setStatus("idle").
P0_toggleRecording_catch_keepsStatus(o, why) ==
    /\ messages' = Append(messages, Msg("assistant", P0_RecordErrorText))
    /\ status' = status
    /\ ops' = [ops EXCEPT ![o] = DoneOp]
    /\ ev' = Ev("toggleRecording.catch", why)

\* catch of toggleRecording.
P0_toggleRecording_catch(o, why) ==
    /\ messages' = Append(messages, Msg("assistant", P0_RecordErrorText))
    /\ status' = "idle"
    /\ ops' = [ops EXCEPT ![o] = DoneOp]
    /\ ev' = Ev("toggleRecording.catch", why)

\* Mic click while status is not "recording": recorder.start() is called and
\* awaits getUserMedia.
P0_toggleRecording_start ==
    /\ variant = "p0"
    /\ P0_micEnabled
    /\ status # "recording"
    /\ nops < MaxClicks
    /\ nops' = nops + 1
    /\ ops' = [ops EXCEPT ![nops + 1] = NewOp("gum")]
    /\ ev' = Ev("toggleRecording", "start")
    /\ UNCHANGED <<P0_unused, status, isLoading, messages, transcript, playbackError,
                   recorders, mediaRecorder, audioChunks, audios, audioRef, requests>>

\* getUserMedia settles for the start() of op o.  Granted: a MediaRecorder is
\* created on the stream, audioChunks is reset and the recorder started.
\* Denied: start() rejects and toggleRecording's catch runs.
P0_getUserMedia(o, granted) ==
    /\ variant = "p0"
    /\ ops[o].pc = "gum"
    /\ IF granted
       THEN /\ recorders' = [recorders EXCEPT ![o] =
                   [state |-> "recording", onstop |-> 0, startPending |-> TRUE]]
            /\ mediaRecorder' = o
            /\ audioChunks' = <<>>
            /\ ops' = [ops EXCEPT ![o].pc = "onstart"]
            /\ ev' = Ev("recorder.start", "granted")
            /\ UNCHANGED <<status, messages>>
       ELSE /\ P0_toggleRecording_catch(o, "getUserMedia")
            /\ UNCHANGED <<recorders, mediaRecorder, audioChunks>>
    /\ UNCHANGED <<P0_unused, isLoading, transcript, playbackError, nops, audios,
                   audioRef, requests>>

\* The start event of recorder r: start() resolves true and toggleRecording
\* sets status "recording".
P0_onstart(r) ==
    /\ variant = "p0"
    /\ recorders[r].startPending
    /\ recorders' = [recorders EXCEPT ![r].startPending = FALSE]
    /\ status' = "recording"
    /\ ops' = [ops EXCEPT ![r] = DoneOp]
    /\ ev' = Ev("toggleRecording", "started")
    /\ UNCHANGED <<P0_unused, isLoading, messages, transcript, playbackError, nops,
                   mediaRecorder, audioChunks, audios, audioRef, requests>>

\* Mic click while status is "recording": status becomes "processing" and
\* recorder.stop() installs onstop on the current mediaRecorder and stops it.
\* MediaRecorder.stop() on a recorder that is no longer recording either
\* throws InvalidStateError or does nothing, depending on the browser.  When
\* it throws, the promise of recorder.stop() is rejected in its executor and
\* the await hands the rejection to toggleRecording's catch before the click
\* has finished: the click leaves status "idle" and the message appended.
P0_toggleRecording_stop(throws) ==
    /\ variant = "p0"
    /\ P0_micEnabled
    /\ status = "recording"
    /\ nops < MaxClicks
    /\ mediaRecorder # 0
    /\ nops' = nops + 1
    /\ LET r == mediaRecorder
           live == recorders[r].state = "recording"
       IN  /\ recorders' = [recorders EXCEPT
                   ![r].onstop = nops + 1,
                   ![r].state = IF live THEN "stopping" ELSE @]
           /\ (live => ~throws)
           /\ IF throws
              THEN P0_toggleRecording_catch(nops + 1, "stop")
              ELSE /\ status' = "processing"
                   /\ ops' = [ops EXCEPT ![nops + 1] = NewOp("stop")]
                   /\ ev' = Ev("toggleRecording", "stop")
                   /\ UNCHANGED messages
    /\ UNCHANGED <<P0_unused, isLoading, transcript, playbackError,
                   mediaRecorder, audioChunks, audios, audioRef, requests>>

\* Recorder r finishes stopping: its dataavailable event delivers the recorded
\* data (pushed when its size is positive), then its stop event runs the
\* installed onstop handler, which resolves stop() with a Blob of audioChunks.
P0_onstop(r, size) ==
    /\ variant = "p0"
    /\ recorders[r].state = "stopping"
    /\ ~recorders[r].startPending
    /\ LET chunks == IF size > 0 THEN Append(audioChunks, Chunk(r, size))
                     ELSE audioChunks
           h == recorders[r].onstop
       IN  /\ audioChunks' = chunks
           /\ ops' = IF h # 0 /\ ops[h].pc = "stop"
                     THEN [ops EXCEPT ![h].pc = "arrayBuffer", ![h].blob = chunks]
                     ELSE ops
    /\ recorders' = [recorders EXCEPT ![r].state = "inactive"]
    /\ ev' = Ev("recorder.onstop", "fired")
    /\ UNCHANGED <<P0_unused, status, isLoading, messages, transcript, playbackError,
                   nops, mediaRecorder, audios, audioRef, requests>>

\* webmBlob.arrayBuffer() settles for op o.  Read: decodeAudioData is called
\* on the buffer.  Otherwise toggleRecording's catch runs.
P0_arrayBuffer(o, read) ==
    /\ variant = "p0"
    /\ ops[o].pc = "arrayBuffer"
    /\ IF read
       THEN /\ ops' = [ops EXCEPT ![o].pc = "decode"]
            /\ ev' = Ev("toggleRecording", "arrayBuffer")
            /\ UNCHANGED <<status, messages>>
       ELSE P0_toggleRecording_catch(o, "arrayBuffer")
    /\ UNCHANGED <<P0_unused, isLoading, transcript, playbackError, nops, recorders,
                   mediaRecorder, audioChunks, audios, audioRef, requests>>

\* decodeAudioData settles for op o.  Decoded: toWav gives the payload and
\* handleSendAudio is called with it.  Otherwise toggleRecording's catch
\* runs.  wavSize is the size handleSendAudio sees: 44 is a WAV header
\* without samples, 0 is the blob that handleSendAudio tests for in its first
\* branch.
P0_decode(o, decoded, wavSize) ==
    /\ variant = "p0"
    /\ ops[o].pc = "decode"
    /\ IF decoded
       THEN IF wavSize = 0
            THEN P0_handleSendAudio_empty(o)
            ELSE P0_handleSendAudio_fetch(o)
       ELSE /\ P0_toggleRecording_catch(o, "decode")
            /\ UNCHANGED <<isLoading, requests>>
    /\ UNCHANGED <<P0_unused, transcript, playbackError, nops, recorders,
                   mediaRecorder, audioChunks, audios, audioRef>>

\* fetch settles for op o.
P0_fetchSettled(o, outcome) ==
    /\ variant = "p0"
    /\ ops[o].pc = "fetch"
    /\ IF outcome = "ok"
       THEN /\ ops' = [ops EXCEPT ![o].pc = "json"]
            /\ ev' = Ev("handleSendAudio", "response")
            /\ UNCHANGED <<status, isLoading, messages, audios, audioRef>>
       ELSE P0_handleSendAudio_catch(o, outcome)
    /\ UNCHANGED <<P0_unused, transcript, playbackError, nops, recorders,
                   mediaRecorder, audioChunks, requests>>

\* response.json() settles for op o.
P0_jsonSettled(o, j) ==
    /\ variant = "p0"
    /\ ops[o].pc = "json"
    /\ IF ~j.valid
       THEN P0_handleSendAudio_catch(o, "not_json")
       ELSE IF j.data.status = "success"
            THEN P0_handleSendAudio_success(o, j.data)
            ELSE P0_handleSendAudio_catch(o, "not_success")
    /\ UNCHANGED <<P0_unused, transcript, playbackError, nops, recorders,
                   mediaRecorder, audioChunks, requests>>

\* A play() whose rejection is treated as a failure of the request.
P0_playSettled_fails(i, allowed) ==
    /\ variant = "p0"
    /\ i \in 1..Len(audios)
    /\ audios[i].state = "pending"
    /\ IF allowed
       THEN /\ audios' = [audios EXCEPT ![i].state = "playing"]
            /\ UNCHANGED <<playbackError, messages>>
       ELSE /\ audios' = [audios EXCEPT ![i].state = "blocked"]
            /\ playbackError' = P0_BlockedText
            /\ messages' = Append(messages, Msg("assistant", P0_SendErrorText))
    /\ ev' = Ev("audio.play", IF allowed THEN "playing" ELSE "blocked")
    /\ UNCHANGED <<P0_unused, status, isLoading, transcript, ops, nops,
                   recorders, mediaRecorder, audioChunks, audioRef, requests>>

\* The promise of audio.play() settles: playback starts, or autoplay is
\* blocked and the catch sets the advisory.
P0_playSettled(i, allowed) ==
    /\ variant = "p0"
    /\ i \in 1..Len(audios)
    /\ audios[i].state = "pending"
    /\ IF allowed
       THEN /\ audios' = [audios EXCEPT ![i].state = "playing"]
            /\ UNCHANGED playbackError
       ELSE /\ audios' = [audios EXCEPT ![i].state = "blocked"]
            /\ playbackError' = P0_BlockedText
    /\ ev' = Ev("audio.play", IF allowed THEN "playing" ELSE "blocked")
    /\ UNCHANGED <<P0_unused, status, isLoading, messages, transcript, ops, nops,
                   recorders, mediaRecorder, audioChunks, audioRef, requests>>

\* The rejection of a play() promise that pause() aborted reaches the catch.
P0_playAborted(i) ==
    /\ variant = "p0"
    /\ i \in 1..Len(audios)
    /\ audios[i].state = "aborted"
    /\ audios' = [audios EXCEPT ![i].state = "blocked"]
    /\ playbackError' = P0_BlockedText
    /\ ev' = Ev("audio.play", "aborted")
    /\ UNCHANGED <<P0_unused, status, isLoading, messages, transcript, ops, nops,
                   recorders, mediaRecorder, audioChunks, audioRef, requests>>

\* audio.onended.
P0_onended(i) ==
    /\ variant = "p0"
    /\ i \in 1..Len(audios)
    /\ audios[i].state = "playing"
    /\ audios' = [audios EXCEPT ![i].state = "ended", ![i].revoked = TRUE]
    /\ playbackError' = "null"
    /\ ev' = Ev("audio.onended", "ended")
    /\ UNCHANGED <<P0_unused, status, isLoading, messages, transcript, ops, nops,
                   recorders, mediaRecorder, audioChunks, audioRef, requests>>

\* Click on the advisory, which is rendered while playbackError is set:
\* audioRef.current?.play(), allowed as a user gesture.  An element that is
\* not playing starts, its pending play() included; one that is playing is
\* left as it is.  audioRef.current is the newest element, which nothing
\* has paused.
P0_manualPlay ==
    /\ variant = "p0"
    /\ playbackError # "null"
    /\ audioRef # 0
    /\ audios' = [audios EXCEPT ![audioRef].state = "playing"]
    /\ ev' = Ev("audio.play", "manual")
    /\ UNCHANGED <<P0_unused, status, isLoading, messages, transcript, playbackError,
                   ops, nops, recorders, mediaRecorder, audioChunks, audioRef,
                   requests>>

\* The state of a component after its first render.
InitComponent(Ids) ==
    /\ mounted = TRUE
    /\ isRecording = FALSE
    /\ recordingBlob = [set |-> FALSE, data |-> <<>>]
    /\ isLoading = FALSE
    /\ messages = <<>>
    /\ transcript = <<>>
    /\ playbackError = "null"
    /\ ops = [o \in Ids |-> NoOp]
    /\ nops = 0
    /\ recorders = [r \in Ids |-> NoRecorder]
    /\ mediaRecorder = 0
    /\ audioChunks = <<>>
    /\ audios = <<>>
    /\ audioRef = 0
    /\ requests = <<>>
    /\ ev = Ev("mount", "")
    /\ isListening = FALSE
    /\ hexString = <<>>
    /\ hexResult = NoResult

\* A component that takes no part in a hex round trip.
InitCommon(Ids) ==
    /\ hexBytes = <<>>
    /\ InitComponent(Ids)

InitP0 ==
    /\ variant = "p0"
    /\ status = "idle"
    /\ InitCommon(P0_OpIds)

\* The steps of toggleRecording and handleSendAudio.
P0_Turns ==
    \/ P0_toggleRecording_start
    \/ \E o \in P0_OpIds, granted \in BOOLEAN : P0_getUserMedia(o, granted)
    \/ \E r \in P0_OpIds : P0_onstart(r)
    \/ \E throws \in BOOLEAN : P0_toggleRecording_stop(throws)
    \/ \E r \in P0_OpIds, size \in ChunkSizes : P0_onstop(r, size)
    \/ \E o \in P0_OpIds, read \in BOOLEAN : P0_arrayBuffer(o, read)
    \/ \E o \in P0_OpIds, decoded \in BOOLEAN, wavSize \in {0, 44} :
           P0_decode(o, decoded, wavSize)
    \/ \E o \in P0_OpIds, outcome \in FetchOutcomes : P0_fetchSettled(o, outcome)
    \/ \E o \in P0_OpIds, j \in JsonOutcomes : P0_jsonSettled(o, j)

\* The events of the Audio elements and the click on the advisory.
P0_Playback ==
    \/ \E i \in P0_OpIds, allowed \in BOOLEAN : P0_playSettled(i, allowed)
    \/ \E i \in P0_OpIds : P0_playAborted(i)
    \/ \E i \in P0_OpIds : P0_onended(i)
    \/ P0_manualPlay

NextP0 == P0_Turns \/ P0_Playback

SpecP0 == InitP0 /\ [][NextP0]_vars

----------------------------------------------------------------------------
(* main-page.tsx, part_001 (recorder component) and part_002: the send      *)
(* handlers, which the three files share line for line except for the       *)
(* conversion step of main-page.tsx                                         *)

RecVariants == {"mp", "p1", "p2"}

AudioFailText == <<"Sorry, I couldn't process that. Please try again.">>
TextFailText == <<"Sorry, I couldn't process that request. Please try again.">>
MP_RecordErrorText == <<"Sorry, I couldn't record audio. Please try again.">>
P1_MicErrorText == <<"Failed to access microphone. Please check permissions.">>

\* A state setter of an unmounted component does nothing.
Set(new, old) == IF mounted THEN new ELSE old

\* What the user may type into the text field.
TextInputs == {<<" ", "h", "i">>}

\* data.audio.match(/.{1,2}/g): the pieces of one or two characters that the
\* expression matches from left to right.  The dot matches no line
\* terminator, so these are skipped and end a piece; without any match the
\* result is null, here the empty sequence.
RECURSIVE MatchPairs(_)
MatchPairs(s) ==
    IF s = <<>> THEN <<>>
    ELSE IF Head(s) \in LineTerminators THEN MatchPairs(Tail(s))
    ELSE IF Len(s) >= 2 /\ s[2] \notin LineTerminators
         THEN <<SubSeq(s, 1, 2)>> \o MatchPairs(SubSeq(s, 3, Len(s)))
         ELSE <<SubSeq(s, 1, 1)>> \o MatchPairs(Tail(s))

\* new Uint8Array(data.audio.match(/.{1,2}/g).map(byte => parseInt(byte, 16)))
hexDecode(s) == [k \in 1..Len(MatchPairs(s)) |-> ParseHexByte(MatchPairs(s)[k])]

\* data.audio.match(...).map(...) raises no TypeError: data.audio is a string
\* (match exists) in which the expression matches (match does not return
\* null).  The audio field of a body is absent or a string.
AudioDecodes(data) == data.audio.present /\ MatchPairs(data.audio.hex) # <<>>

\* The send Button is rendered and not disabled.
sendEnabled == transcript # <<>> /\ ~(isLoading \/ Trim(transcript) = <<>>)

\* handleSendAudio: the request is issued (fetch is called).
handleSendAudio_fetch(o, blob, format) ==
    /\ requests' = Append(requests, [kind |-> "audio", format |-> format,
                                     payload |-> blob])
    /\ ops' = [ops EXCEPT ![o].pc = "fetch", ![o].blob = blob]

\* catch and finally of handleSendAudio.
handleSendAudio_catch(o, why) ==
    /\ messages' = Set(Append(messages, Msg("assistant", AudioFailText)), messages)
    /\ isLoading' = Set(FALSE, isLoading)
    /\ ops' = [ops EXCEPT ![o] = DoneOp]
    /\ ev' = Ev("handleSendAudio.catch", why)
    /\ UNCHANGED audios

\* new Audio(audioUrl).play(): nothing of the component waits for the promise,
\* so the element is taken to play, or to be refused, at once.
playResponse(bytes, allowed) ==
    audios' = Append(audios, [NewAudio(bytes) EXCEPT
                  !.state = IF allowed THEN "playing" ELSE "blocked"])

\* handleSendAudio after response.json() gave a body with status "success":
\* the two messages, then the audio is decoded and played; a TypeError of the
\* decoding is caught by the handler's catch.
handleSendAudio_success(o, data, allowed) ==
    LET two == messages \o <<Msg("user", data.transcript),
                             Msg("assistant", data.response_text)>>
    IN  /\ IF AudioDecodes(data)
           THEN /\ messages' = Set(two, messages)
                /\ playResponse(hexDecode(data.audio.hex), allowed)
                /\ ev' = EvData("handleSendAudio.success", "played", data)
           ELSE /\ messages' = Set(Append(two, Msg("assistant", AudioFailText)),
                                   messages)
                /\ UNCHANGED audios
                /\ ev' = EvData("handleSendAudio.success", "threw", data)
        /\ isLoading' = Set(FALSE, isLoading)
        /\ ops' = [ops EXCEPT ![o] = DoneOp]

\* A handleSendText that tests the text without trimming it.
handleSendText_noTrim ==
    IF transcript = <<>>
    THEN UNCHANGED <<messages, transcript, isLoading, requests, ops, nops>>
    ELSE LET userMessage == Trim(transcript)
         IN  /\ messages' = Set(Append(messages, Msg("user", userMessage)), messages)
             /\ transcript' = Set(<<>>, transcript)
             /\ isLoading' = Set(TRUE, isLoading)
             /\ requests' = Append(requests, [kind |-> "text", format |-> "text",
                                              payload |-> userMessage])
             /\ nops' = nops + 1
             /\ ops' = [ops EXCEPT ![nops + 1] = NewOp("tfetch")]

\* A handleSendText whose setMessages ignores the previous log.
handleSendText_resets ==
    IF Trim(transcript) = <<>>
    THEN UNCHANGED <<messages, transcript, isLoading, requests, ops, nops>>
    ELSE LET userMessage == Trim(transcript)
         IN  /\ messages' = Set(<<Msg("user", userMessage)>>, messages)
             /\ transcript' = Set(<<>>, transcript)
             /\ isLoading' = Set(TRUE, isLoading)
             /\ requests' = Append(requests, [kind |-> "text", format |-> "text",
                                              payload |-> userMessage])
             /\ nops' = nops + 1
             /\ ops' = [ops EXCEPT ![nops + 1] = NewOp("tfetch")]

\* handleSendText up to its first await.
handleSendText ==
    IF Trim(transcript) = <<>>
    THEN UNCHANGED <<messages, transcript, isLoading, requests, ops, nops>>
    ELSE LET userMessage == Trim(transcript)
         IN  /\ messages' = Set(Append(messages, Msg("user", userMessage)), messages)
             /\ transcript' = Set(<<>>, transcript)
             /\ isLoading' = Set(TRUE, isLoading)
             /\ requests' = Append(requests, [kind |-> "text", format |-> "text",
                                              payload |-> userMessage])
             /\ nops' = nops + 1
             /\ ops' = [ops EXCEPT ![nops + 1] = NewOp("tfetch")]

\* A catch of handleSendText that only logs the error.
handleSendText_catch_silent(o, why) ==
    /\ messages' = messages
    /\ isLoading' = Set(FALSE, isLoading)
    /\ ops' = [ops EXCEPT ![o] = DoneOp]
    /\ ev' = Ev("handleSendText.catch", why)
    /\ UNCHANGED audios

\* catch and finally of handleSendText.
handleSendText_catch(o, why) ==
    /\ messages' = Set(Append(messages, Msg("assistant", TextFailText)), messages)
    /\ isLoading' = Set(FALSE, isLoading)
    /\ ops' = [ops EXCEPT ![o] = DoneOp]
    /\ ev' = Ev("handleSendText.catch", why)
    /\ UNCHANGED audios

\* handleSendText after response.json() gave a body with status "success".
handleSendText_success(o, data, allowed) ==
    LET one == Append(messages, Msg("assistant", data.response_text))
    IN  /\ IF AudioDecodes(data)
           THEN /\ messages' = Set(one, messages)
                /\ playResponse(hexDecode(data.audio.hex), allowed)
                /\ ev' = EvData("handleSendText.success", "played", data)
           ELSE /\ messages' = Set(Append(one, Msg("assistant", TextFailText)),
                                   messages)
                /\ UNCHANGED audios
                /\ ev' = EvData("handleSendText.success", "threw", data)
        /\ isLoading' = Set(FALSE, isLoading)
        /\ ops' = [ops EXCEPT ![o] = DoneOp]

\* What the settling of a request leaves alone.
settleUnchanged == <<unused, mounted, status, isRecording, recordingBlob,
                     transcript, playbackError, nops, recorders, mediaRecorder,
                     audioChunks, audioRef, requests>>

\* fetch of handleSendAudio settles: it rejects, or resolves with a response
\* whose ok flag is not looked at.
audioFetchSettled(o, outcome) ==
    /\ variant \in RecVariants
    /\ ops[o].pc = "fetch"
    /\ IF outcome = "reject"
       THEN handleSendAudio_catch(o, outcome)
       ELSE /\ ops' = [ops EXCEPT ![o].pc = "json", ![o].ok = (outcome = "ok")]
            /\ ev' = Step
            /\ UNCHANGED <<isLoading, messages, audios>>
    /\ UNCHANGED settleUnchanged

\* response.json() of handleSendAudio settles.
audioJsonSettled(o, j, allowed) ==
    /\ variant \in RecVariants
    /\ ops[o].pc = "json"
    /\ IF ~j.valid
       THEN handleSendAudio_catch(o, "not_json")
       ELSE IF j.data.status = "success"
            THEN handleSendAudio_success(o, j.data, allowed)
            ELSE handleSendAudio_catch(o, "not_success")
    /\ UNCHANGED settleUnchanged

\* onChange of the text field.
onChange(text) ==
    /\ variant \in RecVariants
    /\ mounted
    /\ text # transcript
    /\ transcript' = text
    /\ ev' = Step
    /\ UNCHANGED <<unused, mounted, status, isRecording, recordingBlob, isLoading,
                   messages, playbackError, ops, nops, recorders, mediaRecorder,
                   audioChunks, audios, audioRef, requests>>

\* Click on the send Button.
sendClick ==
    /\ variant \in RecVariants
    /\ mounted
    /\ sendEnabled
    /\ nops < MaxOps
    /\ handleSendText
    /\ ev' = Ev("handleSendText", "fetch")
    /\ UNCHANGED <<unused, mounted, status, isRecording, recordingBlob,
                   playbackError, recorders, mediaRecorder, audioChunks, audios,
                   audioRef>>

\* fetch of handleSendText settles.
textFetchSettled(o, outcome) ==
    /\ variant \in RecVariants
    /\ ops[o].pc = "tfetch"
    /\ IF outcome = "reject"
       THEN handleSendText_catch(o, outcome)
       ELSE /\ ops' = [ops EXCEPT ![o].pc = "tjson", ![o].ok = (outcome = "ok")]
            /\ ev' = Step
            /\ UNCHANGED <<isLoading, messages, audios>>
    /\ UNCHANGED settleUnchanged

\* response.json() of handleSendText settles.
textJsonSettled(o, j, allowed) ==
    /\ variant \in RecVariants
    /\ ops[o].pc = "tjson"
    /\ IF ~j.valid
       THEN handleSendText_catch(o, "not_json")
       ELSE IF j.data.status = "success"
            THEN handleSendText_success(o, j.data, allowed)
            ELSE handleSendText_catch(o, "not_success")
    /\ UNCHANGED settleUnchanged

\* A playing element reaches the end of its audio.
playEnded(i) ==
    /\ variant \in RecVariants
    /\ i \in 1..Len(audios)
    /\ audios[i].state = "playing"
    /\ audios' = [audios EXCEPT ![i].state = "ended"]
    /\ ev' = Step
    /\ UNCHANGED <<unused, mounted, status, isRecording, recordingBlob, isLoading,
                   messages, transcript, playbackError, ops, nops, recorders,
                   mediaRecorder, audioChunks, audioRef, requests>>

\* Whether play() of a response's element is allowed.  A refusal rejects a
\* promise that no handler of these components looks at and leaves an element
\* that does not play.
PlayOutcomes == BOOLEAN

\* The steps of handleSendAudio after its request is issued.
VoiceSettled ==
    \/ \E o \in DOMAIN ops, outcome \in FetchOutcomes : audioFetchSettled(o, outcome)
    \/ \E o \in DOMAIN ops, j \in JsonOutcomes, allowed \in PlayOutcomes :
           audioJsonSettled(o, j, allowed)

\* The text field and the steps of handleSendText.
TextTurns ==
    \/ \E text \in TextInputs : onChange(text)
    \/ sendClick
    \/ \E o \in DOMAIN ops, outcome \in FetchOutcomes : textFetchSettled(o, outcome)
    \/ \E o \in DOMAIN ops, j \in JsonOutcomes, allowed \in PlayOutcomes :
           textJsonSettled(o, j, allowed)

\* The steps of handleSendAudio and handleSendText, and the text field.
SendHandlers == VoiceSettled \/ TextTurns

SendNext == SendHandlers \/ \E i \in DOMAIN ops : playEnded(i)

----------------------------------------------------------------------------
(* main-page.tsx: useReactMediaRecorder *)

\* The mic Button's disabled attribute, negated.
MP_micEnabled == ~(isLoading \/ status = "acquiring_media")

\* Mic click while the hook's status is not "recording": startRecording()
\* acquires the stream (status "acquiring_media").
MP_toggleRecording_start ==
    /\ variant = "mp"
    /\ MP_micEnabled
    /\ status # "recording"
    /\ nops < MaxOps
    /\ status' = "acquiring_media"
    /\ nops' = nops + 1
    /\ ops' = [ops EXCEPT ![nops + 1] = NewOp("gum")]
    /\ ev' = Ev("toggleRecording", "start")
    /\ UNCHANGED <<unused, mounted, isRecording, recordingBlob, isLoading,
                   messages, transcript, playbackError, recorders, mediaRecorder,
                   audioChunks, audios, audioRef, requests>>

\* The effect on the hook's error: one assistant message, isLoading false.
MP_errorEffect ==
    /\ messages' = Append(messages, Msg("assistant", MP_RecordErrorText))
    /\ isLoading' = FALSE

\* getUserMedia settles inside startRecording.  Granted: a MediaRecorder is
\* created and started, status "recording".  Denied: the hook sets its error
\* and status "idle", and the component's effect on error runs.
MP_getUserMedia(o, granted) ==
    /\ variant = "mp"
    /\ ops[o].pc = "gum"
    /\ IF granted
       THEN /\ recorders' = [recorders EXCEPT ![o].state = "recording"]
            /\ mediaRecorder' = o
            /\ status' = "recording"
            /\ ops' = [ops EXCEPT ![o].pc = "recording"]
            /\ ev' = Ev("startRecording", "granted")
            /\ UNCHANGED <<messages, isLoading>>
       ELSE /\ status' = "idle"
            /\ MP_errorEffect
            /\ ops' = [ops EXCEPT ![o] = DoneOp]
            /\ ev' = Ev("startRecording", "denied")
            /\ UNCHANGED <<recorders, mediaRecorder>>
    /\ UNCHANGED <<unused, mounted, isRecording, recordingBlob, transcript,
                   playbackError, nops, audioChunks, audios, audioRef, requests>>

\* Mic click while status is "recording": stopRecording() stops the current
\* recorder (status "stopping") and empties the hook's chunk list.
MP_toggleRecording_stop ==
    /\ variant = "mp"
    /\ MP_micEnabled
    /\ status = "recording"
    /\ mediaRecorder # 0
    /\ recorders[mediaRecorder].state = "recording"
    /\ status' = "stopping"
    /\ recorders' = [recorders EXCEPT ![mediaRecorder].state = "stopping"]
    /\ audioChunks' = <<>>
    /\ ev' = Ev("toggleRecording", "stop")
    /\ UNCHANGED <<unused, mounted, isRecording, recordingBlob, isLoading,
                   messages, transcript, playbackError, ops, nops, mediaRecorder,
                   audios, audioRef, requests>>

\* Recorder r finishes stopping: its data (whose size main-page.tsx never
\* looks at) is pushed to the hook's chunk list, the hook builds the Blob,
\* sets status "stopped" and calls onStop(blobUrl, blob), which is
\* handleSendAudio(blob) up to the first await of convertToWav
\* (ffmpeg.load()).
MP_onStop(r, size) ==
    /\ variant = "mp"
    /\ recorders[r].state = "stopping"
    /\ LET chunks == Append(audioChunks, Chunk(r, size))
       IN  /\ audioChunks' = chunks
           /\ ops' = [ops EXCEPT ![r].pc = "load", ![r].blob = chunks]
    /\ recorders' = [recorders EXCEPT ![r].state = "inactive"]
    /\ status' = "stopped"
    /\ isLoading' = TRUE
    /\ ev' = Ev("handleSendAudio", "convert")
    /\ UNCHANGED <<unused, mounted, isRecording, recordingBlob, messages,
                   transcript, playbackError, nops, mediaRecorder, audios,
                   audioRef, requests>>

\* What the awaits of convertToWav leave alone.
MP_convertUnchanged == <<unused, mounted, status, isRecording, recordingBlob,
                         transcript, playbackError, nops, recorders, mediaRecorder,
                         audioChunks, audioRef>>

\* ffmpeg.load() settles for op o: fetchFile(blob) is called and awaited, or
\* the catch and finally of handleSendAudio run.
MP_ffmpegLoad(o, loaded) ==
    /\ variant = "mp"
    /\ ops[o].pc = "load"
    /\ IF loaded
       THEN /\ ops' = [ops EXCEPT ![o].pc = "fetchFile"]
            /\ ev' = Ev("convertToWav", "loaded")
            /\ UNCHANGED <<messages, isLoading, audios>>
       ELSE handleSendAudio_catch(o, "convert")
    /\ UNCHANGED <<MP_convertUnchanged, requests>>

\* fetchFile(blob) settles for op o: the input file is written and
\* ffmpeg.run started and awaited, or the catch and finally of
\* handleSendAudio run.
MP_fetchFile(o, fetched) ==
    /\ variant = "mp"
    /\ ops[o].pc = "fetchFile"
    /\ IF fetched
       THEN /\ ops' = [ops EXCEPT ![o].pc = "run"]
            /\ ev' = Ev("convertToWav", "fetched")
            /\ UNCHANGED <<messages, isLoading, audios>>
       ELSE handleSendAudio_catch(o, "convert")
    /\ UNCHANGED <<MP_convertUnchanged, requests>>

\* ffmpeg.run settles for op o: convertToWav returns the WAV blob and the
\* request is issued with it, or the catch and finally of handleSendAudio
\* run.
MP_ffmpegRun(o, converted) ==
    /\ variant = "mp"
    /\ ops[o].pc = "run"
    /\ IF converted
       THEN /\ handleSendAudio_fetch(o, ops[o].blob, "wav")
            /\ ev' = Ev("handleSendAudio", "fetch")
            /\ UNCHANGED <<messages, isLoading, audios>>
       ELSE /\ handleSendAudio_catch(o, "convert")
            /\ UNCHANGED requests
    /\ UNCHANGED MP_convertUnchanged

InitMP ==
    /\ variant = "mp"
    /\ status = "idle"
    /\ InitCommon(OpIds)

\* The recording steps of main-page.tsx.
MP_Recording ==
    \/ MP_toggleRecording_start
    \/ \E o \in OpIds, granted \in BOOLEAN : MP_getUserMedia(o, granted)
    \/ MP_toggleRecording_stop
    \/ \E r \in OpIds, size \in ChunkSizes : MP_onStop(r, size)
    \/ \E o \in OpIds, loaded \in BOOLEAN : MP_ffmpegLoad(o, loaded)
    \/ \E o \in OpIds, fetched \in BOOLEAN : MP_fetchFile(o, fetched)
    \/ \E o \in OpIds, converted \in BOOLEAN : MP_ffmpegRun(o, converted)

NextMP == MP_Recording \/ SendNext

SpecMP == InitMP /\ [][NextMP]_vars

----------------------------------------------------------------------------
(* part_001, first component: MediaRecorder driven by the component *)

\* The mic Button's disabled attribute, negated.
P1_micEnabled == ~isLoading

\* Mic click while isRecording is false: getUserMedia is awaited.
P1_toggleRecording_start ==
    /\ variant = "p1"
    /\ mounted
    /\ P1_micEnabled
    /\ ~isRecording
    /\ nops < MaxOps
    /\ nops' = nops + 1
    /\ ops' = [ops EXCEPT ![nops + 1] = NewOp("gum")]
    /\ ev' = Ev("toggleRecording", "start")
    /\ UNCHANGED <<unused, mounted, status, isRecording, recordingBlob, isLoading,
                   messages, transcript, playbackError, recorders, mediaRecorder,
                   audioChunks, audios, audioRef, requests>>

\* getUserMedia settles for op o.  Granted: a MediaRecorder becomes
\* mediaRecorderRef.current, audioChunksRef is reset, the recorder is started
\* and isRecording set.  Denied: the catch appends one message.
P1_getUserMedia(o, granted) ==
    /\ variant = "p1"
    /\ ops[o].pc = "gum"
    /\ IF granted
       THEN /\ recorders' = [recorders EXCEPT ![o].state = "recording"]
            /\ mediaRecorder' = o
            /\ audioChunks' = <<>>
            /\ isRecording' = Set(TRUE, isRecording)
            /\ ops' = [ops EXCEPT ![o].pc = "recording"]
            /\ ev' = Ev("toggleRecording", "started")
            /\ UNCHANGED messages
       ELSE /\ messages' = Set(Append(messages, Msg("assistant", P1_MicErrorText)),
                               messages)
            /\ ops' = [ops EXCEPT ![o] = DoneOp]
            /\ ev' = Ev("toggleRecording.catch", "getUserMedia")
            /\ UNCHANGED <<recorders, mediaRecorder, audioChunks, isRecording>>
    /\ UNCHANGED <<unused, mounted, status, recordingBlob, isLoading, transcript,
                   playbackError, nops, audios, audioRef, requests>>

\* Mic click while isRecording is true: mediaRecorderRef.current?.stop(), then
\* setIsRecording(false).  stop() on a recorder that is not recording throws
\* (and the setter is not reached) or does nothing, depending on the browser.
P1_toggleRecording_stop(throws) ==
    /\ variant = "p1"
    /\ mounted
    /\ P1_micEnabled
    /\ isRecording
    /\ LET live == mediaRecorder # 0 /\ recorders[mediaRecorder].state = "recording"
       IN  /\ (live \/ mediaRecorder = 0) => ~throws
           /\ recorders' = IF live
                           THEN [recorders EXCEPT ![mediaRecorder].state = "stopping"]
                           ELSE recorders
    /\ isRecording' = IF throws THEN isRecording ELSE FALSE
    /\ ev' = Ev("toggleRecording", "stop")
    /\ UNCHANGED <<unused, mounted, status, recordingBlob, isLoading, messages,
                   transcript, playbackError, ops, nops, mediaRecorder, audioChunks,
                   audios, audioRef, requests>>

\* Recorder r finishes stopping: ondataavailable pushes its data (whose size
\* part_001 never looks at), then onstop builds the Blob from
\* audioChunksRef.current, stops the stream's tracks and calls
\* handleSendAudio(audioBlob), which issues the request.
P1_onstop(r, size) ==
    /\ variant = "p1"
    /\ recorders[r].state = "stopping"
    /\ LET chunks == Append(audioChunks, Chunk(r, size))
       IN  /\ audioChunks' = chunks
           /\ handleSendAudio_fetch(r, chunks, "native")
    /\ recorders' = [recorders EXCEPT ![r].state = "inactive"]
    /\ isLoading' = Set(TRUE, isLoading)
    /\ ev' = Ev("handleSendAudio", "fetch")
    /\ UNCHANGED <<unused, mounted, status, isRecording, recordingBlob, messages,
                   transcript, playbackError, nops, mediaRecorder, audios, audioRef>>

\* The cleanup of the mount effect: a recorder that is not inactive is stopped.
P1_unmount ==
    /\ variant = "p1"
    /\ mounted
    /\ mounted' = FALSE
    /\ recorders' = IF mediaRecorder # 0 /\ recorders[mediaRecorder].state = "recording"
                    THEN [recorders EXCEPT ![mediaRecorder].state = "stopping"]
                    ELSE recorders
    /\ ev' = Ev("unmount", "")
    /\ UNCHANGED <<unused, status, isRecording, recordingBlob, isLoading, messages,
                   transcript, playbackError, ops, nops, mediaRecorder, audioChunks,
                   audios, audioRef, requests>>

InitP1 ==
    /\ variant = "p1"
    /\ status = "idle"
    /\ InitCommon(OpIds)

\* The recording steps of part_001.
P1_Recording ==
    \/ P1_toggleRecording_start
    \/ \E o \in OpIds, granted \in BOOLEAN : P1_getUserMedia(o, granted)
    \/ \E throws \in BOOLEAN : P1_toggleRecording_stop(throws)
    \/ \E r \in OpIds, size \in ChunkSizes : P1_onstop(r, size)

NextP1 == P1_Recording \/ SendNext

SpecP1 == InitP1 /\ [][NextP1]_vars

\* part_001 with the component unmounted at any moment.
SpecP1Unmount == InitP1 /\ [][NextP1 \/ P1_unmount]_vars

----------------------------------------------------------------------------
(* part_002: useAudioRecorder *)

\* Identities of the invocations of part_002: those that a click starts, and
\* one more for a call of handleSendAudio that the effect makes at a stop
\* click.
P2_OpIds == 1..(MaxOps + 1)

\* The identity for a call of handleSendAudio made at a stop click.
P2_effectOp == MaxOps + 1

\* The effect on [isRecording, recordingBlob], run with the values rec and b
\* after one of them changed: a completed recording is sent as op o.
P2_recordingEffect(rec, b, o) ==
    IF ~rec /\ b.set
    THEN /\ isLoading' = TRUE
         /\ handleSendAudio_fetch(o, b.data, "native")
         /\ ev' = Ev("handleSendAudio", "fetch")
    ELSE /\ ops' = [ops EXCEPT ![o] = IF @.pc = "none" THEN @ ELSE DoneOp]
         /\ ev' = Step
         /\ UNCHANGED <<isLoading, requests>>

\* Mic click while isRecording is false: startRecording() asks for the stream.
P2_startRecording ==
    /\ variant = "p2"
    /\ ~isLoading
    /\ ~isRecording
    /\ nops < MaxOps
    /\ nops' = nops + 1
    /\ ops' = [ops EXCEPT ![nops + 1] = NewOp("gum")]
    /\ ev' = Ev("startRecording", "start")
    /\ UNCHANGED <<unused, mounted, status, isRecording, recordingBlob, isLoading,
                   messages, transcript, playbackError, recorders, mediaRecorder,
                   audioChunks, audios, audioRef, requests>>

\* getUserMedia settles inside startRecording.  Granted: isRecording is set
\* and a MediaRecorder created and started.  Denied: the hook only logs.
P2_getUserMedia(o, granted) ==
    /\ variant = "p2"
    /\ ops[o].pc = "gum"
    /\ IF granted
       THEN /\ isRecording' = TRUE
            /\ recorders' = [recorders EXCEPT ![o].state = "recording"]
            /\ mediaRecorder' = o
            /\ ops' = [ops EXCEPT ![o].pc = "recording"]
            /\ ev' = Ev("startRecording", "granted")
       ELSE /\ ops' = [ops EXCEPT ![o] = DoneOp]
            /\ ev' = Ev("startRecording", "denied")
            /\ UNCHANGED <<isRecording, recorders, mediaRecorder>>
    /\ UNCHANGED <<unused, mounted, status, recordingBlob, isLoading, messages,
                   transcript, playbackError, nops, audioChunks, audios, audioRef,
                   requests>>

\* Mic click while isRecording is true: stopRecording() stops the hook's
\* recorder and sets isRecording false; the component's effect then runs with
\* the recordingBlob of that render.
P2_stopRecording ==
    /\ variant = "p2"
    /\ ~isLoading
    /\ isRecording
    /\ recordingBlob.set => ops[P2_effectOp].pc = "none"
    /\ recorders' = IF mediaRecorder # 0 /\ recorders[mediaRecorder].state = "recording"
                    THEN [recorders EXCEPT ![mediaRecorder].state = "stopping"]
                    ELSE recorders
    /\ isRecording' = FALSE
    /\ P2_recordingEffect(FALSE, recordingBlob, P2_effectOp)
    /\ UNCHANGED <<unused, mounted, status, recordingBlob, messages, transcript,
                   playbackError, nops, mediaRecorder, audioChunks, audios, audioRef>>

\* Recorder r delivers its data after stop(): the hook sets recordingBlob,
\* stops the stream's tracks and forgets the recorder; the component's effect
\* then runs with the new recordingBlob.
P2_dataavailable(r, size) ==
    /\ variant = "p2"
    /\ recorders[r].state = "stopping"
    /\ recorders' = [recorders EXCEPT ![r].state = "inactive"]
    /\ recordingBlob' = [set |-> TRUE, data |-> <<Chunk(r, size)>>]
    /\ mediaRecorder' = 0
    /\ P2_recordingEffect(isRecording, recordingBlob', r)
    /\ UNCHANGED <<unused, mounted, status, isRecording, messages, transcript,
                   playbackError, nops, audioChunks, audios, audioRef>>

InitP2 ==
    /\ variant = "p2"
    /\ status = "idle"
    /\ InitCommon(P2_OpIds)

\* The recording steps of part_002.
P2_Recording ==
    \/ P2_startRecording
    \/ \E o \in OpIds, granted \in BOOLEAN : P2_getUserMedia(o, granted)
    \/ P2_stopRecording
    \/ \E r \in OpIds, size \in ChunkSizes : P2_dataavailable(r, size)

NextP2 == P2_Recording \/ SendNext

SpecP2 == InitP2 /\ [][NextP2]_vars

----------------------------------------------------------------------------
(* part_001, second component: speech recognition whose recognitionRef is   *)
(* never assigned, so the transcript is what the user types                 *)

\* Response bodies of the JSON endpoint (parsed JSON).
SR_Bodies == {[status |-> "success", response |-> <<"hi there">>],
              [status |-> "error", response |-> <<>>]}

SR_JsonOutcomes == {[valid |-> TRUE, data |-> b] : b \in SR_Bodies}
                   \cup {[valid |-> FALSE, data |-> [status |-> "none", response |-> <<>>]]}

\* What the speech-recognition component does not have or never changes.
SR_unused == <<variant, hexBytes, hexString, hexResult, mounted, status,
               isRecording, recordingBlob, playbackError, recorders,
               mediaRecorder, audioChunks, audios, audioRef>>

\* handleSendMessage up to its first await.
handleSendMessage ==
    IF Trim(transcript) = <<>>
    THEN UNCHANGED <<messages, transcript, isLoading, requests, ops, nops>>
    ELSE LET userMessage == Trim(transcript)
         IN  /\ messages' = Append(messages, Msg("user", userMessage))
             /\ transcript' = <<>>
             /\ isLoading' = TRUE
             /\ requests' = Append(requests, [kind |-> "json", format |-> "json",
                                              payload |-> userMessage])
             /\ nops' = nops + 1
             /\ ops' = [ops EXCEPT ![nops + 1] = NewOp("mfetch")]

\* catch and finally of handleSendMessage.
handleSendMessage_catch(o, why) ==
    /\ messages' = Append(messages, Msg("assistant", TextFailText))
    /\ isLoading' = FALSE
    /\ ops' = [ops EXCEPT ![o] = DoneOp]
    /\ ev' = Ev("handleSendMessage.catch", why)

\* handleSendMessage after response.json() gave a body with status "success":
\* the reply is appended and handed to speechSynthesis.
handleSendMessage_success(o, data) ==
    /\ messages' = Append(messages, Msg("assistant", data.response))
    /\ isLoading' = FALSE
    /\ ops' = [ops EXCEPT ![o] = DoneOp]
    /\ ev' = Ev("handleSendMessage.success", "")

\* A toggleListening that keeps the transcript when listening starts and
\* sends it unconditionally when listening stops.
toggleListening_keepsTranscript ==
    /\ variant = "sr"
    /\ ~isLoading
    /\ IF isListening
       THEN /\ nops < MaxOps
            /\ isListening' = FALSE
            /\ messages' = Append(messages, Msg("user", transcript))
            /\ transcript' = <<>>
            /\ isLoading' = TRUE
            /\ requests' = Append(requests, [kind |-> "json", format |-> "json",
                                             payload |-> transcript])
            /\ nops' = nops + 1
            /\ ops' = [ops EXCEPT ![nops + 1] = NewOp("mfetch")]
            /\ ev' = Ev("toggleListening", "stop")
       ELSE /\ isListening' = TRUE
            /\ ev' = Ev("toggleListening", "start")
            /\ UNCHANGED <<transcript, messages, isLoading, requests, ops, nops>>
    /\ UNCHANGED SR_unused

\* Mic click.  Listening: recognition is stopped, isListening cleared and a
\* transcript that is not blank is sent.  Not listening: the transcript is
\* cleared and isListening set.
toggleListening ==
    /\ variant = "sr"
    /\ ~isLoading
    /\ IF isListening
       THEN /\ Trim(transcript) # <<>> => nops < MaxOps
            /\ isListening' = FALSE
            /\ handleSendMessage
            /\ ev' = Ev("toggleListening", "stop")
       ELSE /\ transcript' = <<>>
            /\ isListening' = TRUE
            /\ ev' = Ev("toggleListening", "start")
            /\ UNCHANGED <<messages, isLoading, requests, ops, nops>>
    /\ UNCHANGED SR_unused

\* onChange of the text field.
SR_onChange(text) ==
    /\ variant = "sr"
    /\ text # transcript
    /\ transcript' = text
    /\ ev' = Step
    /\ UNCHANGED <<SR_unused, isListening, isLoading, messages, ops, nops, requests>>

\* Click on the send Button.
SR_sendClick ==
    /\ variant = "sr"
    /\ sendEnabled
    /\ nops < MaxOps
    /\ handleSendMessage
    /\ ev' = Ev("handleSendMessage", "fetch")
    /\ UNCHANGED <<SR_unused, isListening>>

\* fetch of handleSendMessage settles.
SR_fetchSettled(o, outcome) ==
    /\ variant = "sr"
    /\ ops[o].pc = "mfetch"
    /\ IF outcome = "reject"
       THEN handleSendMessage_catch(o, outcome)
       ELSE /\ ops' = [ops EXCEPT ![o].pc = "mjson", ![o].ok = (outcome = "ok")]
            /\ ev' = Step
            /\ UNCHANGED <<isLoading, messages>>
    /\ UNCHANGED <<SR_unused, isListening, transcript, nops, requests>>

\* response.json() of handleSendMessage settles.
SR_jsonSettled(o, j) ==
    /\ variant = "sr"
    /\ ops[o].pc = "mjson"
    /\ IF ~j.valid
       THEN handleSendMessage_catch(o, "not_json")
       ELSE IF j.data.status = "success"
            THEN handleSendMessage_success(o, j.data)
            ELSE handleSendMessage_catch(o, "not_success")
    /\ UNCHANGED <<SR_unused, isListening, transcript, nops, requests>>

\* Values of the text field of the speech-recognition component.
SR_TextValues == TextInputs \cup {<<" ">>, <<>>}

InitSR ==
    /\ variant = "sr"
    /\ status = "idle"
    /\ InitCommon(OpIds)

NextSR ==
    \/ toggleListening
    \/ \E text \in SR_TextValues : SR_onChange(text)
    \/ SR_sendClick
    \/ \E o \in OpIds, outcome \in FetchOutcomes : SR_fetchSettled(o, outcome)
    \/ \E o \in OpIds, j \in SR_JsonOutcomes : SR_jsonSettled(o, j)

SpecSR == InitSR /\ [][NextSR]_vars

----------------------------------------------------------------------------
(* Any of the components *)

Init == InitP0 \/ InitMP \/ InitP1 \/ InitP2 \/ InitSR

Next == NextP0 \/ MP_Recording \/ P1_Recording \/ P2_Recording \/ SendNext \/ NextSR

Spec == Init /\ [][Next]_vars

\* Values of the text field with which handleSendText is called directly.
TextValues ==
    TextInputs \cup {<<" ">>, <<" ", "\t">>, <<"U+00A0", "U+3000">>,
                     <<"U+00A0", "h", "i", "U+3000">>, <<>>}

\* handleSendText called, whatever the send Button's state is.
handleSendText_call ==
    /\ variant \in RecVariants
    /\ mounted
    /\ Trim(transcript) # <<>> => nops < MaxOps
    /\ handleSendText
    /\ ev' = Ev("handleSendText", IF Trim(transcript) = <<>> THEN "blank" ELSE "fetch")
    /\ UNCHANGED <<unused, mounted, status, isRecording, recordingBlob,
                   playbackError, recorders, mediaRecorder, audioChunks, audios,
                   audioRef>>

\* handleSendMessage called, whatever the send Button's state is.
handleSendMessage_call ==
    /\ variant = "sr"
    /\ Trim(transcript) # <<>> => nops < MaxOps
    /\ handleSendMessage
    /\ ev' = Ev("handleSendMessage", IF Trim(transcript) = <<>> THEN "blank" ELSE "fetch")
    /\ UNCHANGED <<SR_unused, isListening>>

\* The text entry points alone: handleSendText of main-page.tsx, part_001 and
\* part_002 and handleSendMessage of the speech-recognition component, called
\* with any text, and the mic Button of the speech-recognition component,
\* which sends the transcript when listening stops.
NextText ==
    \/ \E text \in TextValues : onChange(text)
    \/ handleSendText_call
    \/ \E o \in OpIds, outcome \in FetchOutcomes : textFetchSettled(o, outcome)
    \/ \E o \in OpIds, j \in JsonOutcomes, allowed \in PlayOutcomes :
           textJsonSettled(o, j, allowed)
    \/ \E text \in TextValues : SR_onChange(text)
    \/ handleSendMessage_call
    \/ SR_sendClick
    \/ toggleListening
    \/ \E o \in OpIds, outcome \in FetchOutcomes : SR_fetchSettled(o, outcome)
    \/ \E o \in OpIds, j \in SR_JsonOutcomes : SR_jsonSettled(o, j)

SpecText == (InitMP \/ InitP1 \/ InitP2 \/ InitSR) /\ [][NextText]_vars

----------------------------------------------------------------------------
(* The hex decoders applied to the encoding of a byte sequence *)

\* The audio field is the hex encoding of the bytes, in lower or upper case.
encodeHex(digits) ==
    /\ variant = "hex"
    /\ ev = Ev("mount", "")
    /\ hexString' = HexEncodeWith(digits, hexBytes)
    /\ ev' = Ev("hex", "encoded")
    /\ UNCHANGED <<variant, isListening, hexBytes, hexResult, mounted, status,
                   isRecording, recordingBlob, isLoading, messages, transcript,
                   playbackError, ops, nops, recorders, mediaRecorder, audioChunks,
                   audios, audioRef, requests>>

\* part_000: the loop of playAudioResponse on the audio field.
P0_decodeHex ==
    /\ variant = "hex"
    /\ ev = Ev("hex", "encoded")
    /\ hexResult' = Result("p0", FALSE, P0_hexDecode(hexString))
    /\ ev' = Ev("hex", "decoded")
    /\ UNCHANGED <<variant, isListening, hexBytes, hexString, mounted, status,
                   isRecording, recordingBlob, isLoading, messages, transcript,
                   playbackError, ops, nops, recorders, mediaRecorder, audioChunks,
                   audios, audioRef, requests>>

\* main-page.tsx, part_001, part_002: match and map on the audio field; a
\* match that returns null makes the call of map throw a TypeError.
decodeHex ==
    /\ variant = "hex"
    /\ ev = Ev("hex", "encoded")
    /\ hexResult' = IF AudioDecodes([audio |-> Audio(hexString)])
                    THEN Result("match", FALSE, hexDecode(hexString))
                    ELSE Result("match", TRUE, <<>>)
    /\ ev' = Ev("hex", "decoded")
    /\ UNCHANGED <<variant, isListening, hexBytes, hexString, mounted, status,
                   isRecording, recordingBlob, isLoading, messages, transcript,
                   playbackError, ops, nops, recorders, mediaRecorder, audioChunks,
                   audios, audioRef, requests>>

InitHex ==
    /\ variant = "hex"
    /\ status = "idle"
    /\ hexBytes \in ByteSeqs
    /\ InitComponent(OpIds)

NextHex ==
    \/ \E digits \in {HexDigits, HexDigitsUpper} : encodeHex(digits)
    \/ P0_decodeHex
    \/ decodeHex

SpecHex == InitHex /\ [][NextHex]_vars

\* Every asynchronous step of part_000 that is pending eventually settles; the
\* user is never obliged to click.
FairP0 ==
    /\ WF_vars(\E o \in P0_OpIds, granted \in BOOLEAN : P0_getUserMedia(o, granted))
    /\ WF_vars(\E r \in P0_OpIds : P0_onstart(r))
    /\ WF_vars(\E o \in P0_OpIds, read \in BOOLEAN : P0_arrayBuffer(o, read))
    /\ WF_vars(\E r \in P0_OpIds, size \in ChunkSizes : P0_onstop(r, size))
    /\ WF_vars(\E o \in P0_OpIds, decoded \in BOOLEAN, wavSize \in {0, 44} :
                   P0_decode(o, decoded, wavSize))
    /\ WF_vars(\E o \in P0_OpIds, outcome \in FetchOutcomes : P0_fetchSettled(o, outcome))
    /\ WF_vars(\E o \in P0_OpIds, j \in JsonOutcomes : P0_jsonSettled(o, j))

\* The steps of toggleRecording and handleSendAudio of part_000 without the
\* events of the Audio elements, which change neither status nor isLoading
\* nor a handler's position.
SpecP0Turns == InitP0 /\ [][P0_Turns]_vars

FairSpecP0Turns == SpecP0Turns /\ FairP0

\* A request that is in flight settles: fetch or response.json() of a send
\* handler of any component.
Settle ==
    \/ \E o \in P0_OpIds, outcome \in FetchOutcomes : P0_fetchSettled(o, outcome)
    \/ \E o \in P0_OpIds, j \in JsonOutcomes : P0_jsonSettled(o, j)
    \/ \E o \in DOMAIN ops, outcome \in FetchOutcomes : audioFetchSettled(o, outcome)
    \/ \E o \in DOMAIN ops, j \in JsonOutcomes, allowed \in PlayOutcomes :
           audioJsonSettled(o, j, allowed)
    \/ \E o \in DOMAIN ops, outcome \in FetchOutcomes : textFetchSettled(o, outcome)
    \/ \E o \in DOMAIN ops, j \in JsonOutcomes, allowed \in PlayOutcomes :
           textJsonSettled(o, j, allowed)
    \/ \E o \in OpIds, outcome \in FetchOutcomes : SR_fetchSettled(o, outcome)
    \/ \E o \in OpIds, j \in SR_JsonOutcomes : SR_jsonSettled(o, j)

\* While requests are in flight, one of them eventually settles; the user is
\* never obliged to click and a recorder never obliged to deliver.
FairSend == WF_vars(Settle)

\* Any of the components, with every request that is in flight settling.
FairSpec == Spec /\ FairSend

\* part_000 and main-page.tsx, the two components that convert the recording
\* before they send it, with every step of each.
InitConvert == InitP0 \/ InitMP

NextConvert == NextP0 \/ NextMP

SpecConvert == InitConvert /\ [][NextConvert]_vars

----------------------------------------------------------------------------
(* Properties *)

\* The log `a` is an initial segment of the log `b`.
IsPrefix(a, b) == Len(a) <= Len(b) /\ SubSeq(b, 1, Len(a)) = a

\* Op o of part_000 called recorder.stop() on a recorder that had already
\* stopped, and the browser's stop() did not throw: no stop event will ever
\* run the onstop handler, so the promise of recorder.stop() never settles.
StopStuck(o) ==
    /\ ops[o].pc = "stop"
    /\ ~\E r \in P0_OpIds : recorders[r].onstop = o /\ recorders[r].state = "stopping"

\* C1: in part_000, whenever status is "processing" the session later has
\* status "idle" and isLoading false, whatever the outcome of the turn,
\* provided every asynchronous step settles (a recorder.stop() that can never
\* settle is outside the claim's assumption).
C1_TurnEndsIdle ==
    (status = "processing") ~>
        ((status = "idle" /\ ~isLoading) \/ \E o \in P0_OpIds : StopStuck(o))

\* A turn failed on a non-2xx response and the session is idle again.
C1_Witness ==
    /\ ev = Ev("handleSendAudio.catch", "not_ok")
    /\ status = "idle"
    /\ ~isLoading

\* C2: in part_000, status only changes idle->recording,
\* recording->processing and processing->idle.
C2_StatusTransitions ==
    [][status' # status =>
           <<status, status'>> \in {<<"idle", "recording">>,
                                    <<"recording", "processing">>,
                                    <<"processing", "idle">>}]_vars

\* Operations of part_000 that are awaiting an asynchronous step.
P0_InFlight ==
    {o \in P0_OpIds :
        ops[o].pc \in {"gum", "onstart", "stop", "arrayBuffer", "decode", "fetch", "json"}}

\* C3: in part_000, at most one asynchronous controller operation is in
\* flight at any time.
C3_OneInFlight == Cardinality(P0_InFlight) <= 1

\* C4: in part_000, handleSendAudio with an empty payload issues no fetch,
\* appends exactly the message {assistant, "No audio recorded. Please try
\* again."} and leaves status "idle" and isLoading false.
C4_EmptyPayload ==
    [][ev' = Ev("handleSendAudio", "empty") =>
           /\ requests' = requests
           /\ messages' = Append(messages, Msg("assistant", P0_NoAudioText))
           /\ status' = "idle"
           /\ ~isLoading']_vars

\* handleSendAudio has just taken its empty-payload branch.
C4_Witness ==
    /\ ev = Ev("handleSendAudio", "empty")
    /\ messages # <<>>
    /\ messages[Len(messages)] = Msg("assistant", P0_NoAudioText)
    /\ requests = <<>>

\* C5: in part_000, on a 2xx response whose body has status "success",
\* handleSendAudio appends exactly {user, transcript} then {assistant,
\* response_text}, and starts playback iff the audio field is non-empty.
C5_SuccessAppendsTwo ==
    [][ev'.name = "handleSendAudio.success" =>
           LET data == ev'.data
               started == /\ Len(audios') = Len(audios) + 1
                          /\ audios'[Len(audios')].state = "pending"
                          /\ audioRef' = Len(audios')
           IN  /\ messages' = messages \o <<Msg("user", data.transcript),
                                            Msg("assistant", data.response_text)>>
               /\ started <=> (data.audio.present /\ data.audio.hex # <<>>)
               /\ ~started => audios' = audios]_vars

\* A successful turn whose body carried audio has just been handled.
C5_Witness ==
    /\ ev.name = "handleSendAudio.success"
    /\ ev.data.audio.hex # <<>>
    /\ Len(messages) = 2
    /\ messages[1].role = "user"
    /\ audioRef = 1
    /\ audios[1].state = "pending"

\* C6: in part_000, when the request fails, handleSendAudio appends exactly
\* one assistant message and no user message, and the earlier messages stay
\* unchanged at their indices.
C6_FailureAppendsOne ==
    [][ev'.name = "handleSendAudio.catch" =>
           /\ Len(messages') = Len(messages) + 1
           /\ SubSeq(messages', 1, Len(messages)) = messages
           /\ messages'[Len(messages')].role = "assistant"]_vars

\* A turn failed on a body that is not JSON, after an earlier successful turn.
C6_Witness ==
    /\ ev = Ev("handleSendAudio.catch", "not_json")
    /\ Len(messages) = 3
    /\ messages[1].role = "user"
    /\ messages[3] = Msg("assistant", P0_SendErrorText)

\* C7: in every variant, every step leaves the log before it a prefix of the
\* log after it.
C7_AppendOnly == [][IsPrefix(messages, messages')]_vars

\* A text turn failed after an audio turn succeeded: both handlers appended.
C7_Witness ==
    /\ variant \in RecVariants
    /\ Len(messages) = 5
    /\ messages[1] = Msg("user", <<"hello">>)
    /\ messages[4] = Msg("user", <<"h", "i">>)
    /\ messages[5] = Msg("assistant", TextFailText)

\* C8: in part_000, at most one audio element is playing, and every element
\* other than audioRef.current has been paused and its URL revoked.
C8_OnePlaying ==
    /\ Cardinality(Playing) <= 1
    /\ \A i \in 1..Len(audios) :
           i # audioRef => audios[i].state \notin {"pending", "playing"} /\ audios[i].revoked

\* A second reply arrived while the first was playing: the first is paused
\* and revoked, the second plays.
C8_Witness ==
    /\ variant = "p0"
    /\ Len(audios) = 2
    /\ audios[1].state = "paused"
    /\ audios[1].revoked
    /\ audios[2].state = "playing"

\* C9: in main-page.tsx, part_001 and part_002, at most one response audio
\* element is playing at any time.
C9_RecOnePlaying == variant \in RecVariants => Cardinality(Playing) <= 1

\* C10: in main-page.tsx, part_001 and part_002, on every response with
\* status "success" handleSendAudio appends exactly the user transcript and
\* the assistant reply, whatever the audio field is.
C10_SuccessAppendsTwo ==
    [][(variant \in RecVariants /\ ev'.name = "handleSendAudio.success") =>
           messages' = messages \o <<Msg("user", ev'.data.transcript),
                                     Msg("assistant", ev'.data.response_text)>>]_vars

\* C11: in main-page.tsx, part_001 and part_002, the handling of a response
\* whose HTTP status is not 2xx appends exactly one generic assistant failure
\* message and starts no playback, whatever the body says.
C11_NonOkIsFailure ==
    [][\A o \in OpIds :
           (variant \in RecVariants /\ ops[o].pc \in {"json", "tjson"}
                /\ ~ops[o].ok /\ ops'[o].pc = "done") =>
               /\ messages' = Append(messages,
                      Msg("assistant", IF ops[o].pc = "json" THEN AudioFailText
                                       ELSE TextFailText))
               /\ audios' = audios]_vars

\* C12: in part_001 and part_002, no outbound audio request carries a
\* recording of zero bytes.
C12_NoEmptyRequest ==
    variant \in {"p1", "p2"} =>
        \A i \in 1..Len(requests) :
            requests[i].kind = "audio" => BlobSize(requests[i].payload) > 0

\* The flags of a variant without a status value say a recording is active.
RecordingActive ==
    \/ variant = "mp" /\ status = "recording"
    \/ variant \in {"p1", "p2"} /\ isRecording

\* C13: in main-page.tsx, part_001 and part_002, a recording is never active
\* while a request is in flight (isLoading true).
C13_RecordingXorLoading == variant \in RecVariants => ~(RecordingActive /\ isLoading)

\* Invocations of a send handler whose request has been issued and has not
\* been handled yet.
RequestsInFlight == {o \in OpIds : ops[o].pc \in {"fetch", "json", "tfetch", "tjson"}}

\* C14: in part_001 and main-page.tsx, at most one outbound request is in
\* flight at any time.
C14_OneRequestInFlight == variant \in {"p1", "mp"} => Cardinality(RequestsInFlight) <= 1

\* The audio requests issued so far that carry the blob of recorder r.
RequestsOf(r) ==
    {i \in 1..Len(requests) :
         /\ requests[i].kind = "audio"
         /\ requests[i].payload # <<>>
         /\ requests[i].payload[Len(requests[i].payload)].rec = r}

\* C15: in part_002, no recording's blob is sent in more than one request,
\* and only a recording that has completed is sent.
C15_OneRequestPerRecording ==
    variant = "p2" =>
        \A r \in OpIds :
            /\ Cardinality(RequestsOf(r)) <= 1
            /\ RequestsOf(r) # {} => recorders[r].state = "inactive"

\* part_000: the streams getUserMedia has delivered whose tracks have not been
\* stopped.  Nothing in part_000 stops a track, so they are the streams of all
\* recorders created so far.
P0_LiveStreams == {r \in P0_OpIds : recorders[r].state # "none"}

\* C16: in part_000, whenever status is "idle" and no operation is pending,
\* no capture stream is live.
C16_StreamReleased ==
    (variant = "p0" /\ status = "idle" /\ \A o \in P0_OpIds : ops[o].pc \in {"none", "done"})
        => P0_LiveStreams = {}

\* part_001: the streams whose tracks have not been stopped; onstop of the
\* recorder stops them.
P1_LiveStreams == {r \in OpIds : recorders[r].state \in {"recording", "stopping"}}

\* C17: in part_001, at most one capture stream is live at a time, and every
\* live stream belongs to a recorder that is stopping or that a stop click
\* will stop (mediaRecorderRef.current).
C17_OneStream ==
    variant = "p1" =>
        /\ Cardinality(P1_LiveStreams) <= 1
        /\ \A r \in P1_LiveStreams : recorders[r].state = "stopping" \/ mediaRecorder = r

\* C18: in part_000 and part_001, the payload of every audio request holds
\* the chunks of one recording only.
C18_PayloadOfOneRecording ==
    variant \in {"p0", "p1"} =>
        \A i \in 1..Len(requests) :
            requests[i].kind = "audio" =>
                \A k \in 1..Len(requests[i].payload) :
                    requests[i].payload[k].rec = requests[i].payload[1].rec

\* C19: in main-page.tsx and part_002, handleSendText with non-blank text
\* appends {user, trimmed text} as it issues the request, and the settling of
\* the request appends exactly one assistant message and sets isLoading false.
C19_TextTurn ==
    [][LET issued == ev' = Ev("handleSendText", "fetch")
           settled(o) == ops[o].pc \in {"tfetch", "tjson"} /\ ops'[o].pc = "done"
           appendsUser == /\ messages' = Append(messages, Msg("user", Trim(transcript)))
                          /\ Len(requests') = Len(requests) + 1
           appendsOne == /\ Len(messages') = Len(messages) + 1
                         /\ SubSeq(messages', 1, Len(messages)) = messages
                         /\ messages'[Len(messages')].role = "assistant"
                         /\ ~isLoading'
       IN  variant \in {"mp", "p2"} =>
               /\ issued => appendsUser
               /\ \A o \in DOMAIN ops : settled(o) => appendsOne
      ]_vars

\* C20: in every component with a text entry point (handleSendText of
\* main-page.tsx, part_001 and part_002, handleSendMessage and the stop of
\* listening in the speech-recognition component), a send of text that is
\* empty after trimming appends no message, issues no request and keeps
\* transcript and isLoading.
C20_BlankTextIsNoOp ==
    [][((\/ ev'.name \in {"handleSendText", "handleSendMessage"}
         \/ ev' = Ev("toggleListening", "stop"))
        /\ Trim(transcript) = <<>>) =>
           /\ messages' = messages
           /\ requests' = requests
           /\ transcript' = transcript
           /\ isLoading' = isLoading]_vars

\* handleSendText was called with white space only, while a request was
\* pending.
C20_Witness ==
    /\ ev = Ev("handleSendText", "blank")
    /\ transcript = <<" ", "\t">>
    /\ isLoading
    /\ Len(messages) = 1
    /\ Len(requests) = 1

\* C21: in part_000, a response with audio is handled as a success (the user
\* and the assistant message appended, status "idle", isLoading false), and a
\* play() that the host rejects afterwards only sets the playbackError
\* advisory: no message is appended, no request issued, status and isLoading
\* keep their values.
C21_BlockedIsNotFailure ==
    [][LET data == ev'.data
           withAudio == /\ ev'.name = "handleSendAudio.success"
                        /\ data.audio.present /\ data.audio.hex # <<>>
           rejected == ev'.name = "audio.play" /\ ev'.arg \in {"blocked", "aborted"}
           success == /\ messages' = messages \o <<Msg("user", data.transcript),
                                                   Msg("assistant", data.response_text)>>
                      /\ status' = "idle"
                      /\ ~isLoading'
           advisoryOnly == /\ playbackError' = P0_BlockedText
                           /\ messages' = messages
                           /\ requests' = requests
                           /\ status' = status
                           /\ isLoading' = isLoading
       IN  (withAudio => success) /\ (rejected => advisoryOnly)
      ]_vars

\* The reply of the first turn was refused playback: the log holds the two
\* messages of the success and the session is idle with the advisory set.
C21_Witness ==
    /\ ev = Ev("audio.play", "blocked")
    /\ messages = <<Msg("user", <<"hello">>), Msg("assistant", <<"hi there">>)>>
    /\ status = "idle"
    /\ ~isLoading
    /\ playbackError = P0_BlockedText
    /\ Len(requests) = 1

\* C22: in part_000, the playbackError advisory is cleared when the user
\* starts playback with a click on it and when the next recording is started.
C22_AdvisoryCleared ==
    [][(ev' = Ev("audio.play", "manual") \/ ev' = Ev("toggleRecording", "start"))
           => playbackError' = "null"]_vars

\* C23: in every recorder variant, the payload of every audio request is the
\* output of the conversion to WAV, never the recorder's own data.
C23_ConvertedBeforeSent ==
    \A i \in 1..Len(requests) :
        requests[i].kind = "audio" => requests[i].format = "wav"

\* C24: when getUserMedia rejects, part_000 and the recorder component of
\* part_001 append exactly one assistant message, issue no request and are not
\* recording afterwards (status "idle", isRecording false).
C24_DeviceError ==
    [][ev' = Ev("toggleRecording.catch", "getUserMedia") =>
           /\ Len(messages') = Len(messages) + 1
           /\ SubSeq(messages', 1, Len(messages)) = messages
           /\ messages'[Len(messages')].role = "assistant"
           /\ requests' = requests
           /\ variant = "p0" => status' = "idle"
           /\ variant = "p1" => ~isRecording']_vars

\* C25: when the conversion to WAV fails (reading the capture,
\* decodeAudioData or toWav in part_000, convertToWav in main-page.tsx),
\* exactly one assistant message is appended, no request is issued, and
\* status is "idle" (part_000) or isLoading false (main-page.tsx) afterwards.
C25_EncodingError ==
    [][(ev' = Ev("toggleRecording.catch", "arrayBuffer")
            \/ ev' = Ev("toggleRecording.catch", "decode")
            \/ ev' = Ev("handleSendAudio.catch", "convert")) =>
           /\ Len(messages') = Len(messages) + 1
           /\ SubSeq(messages', 1, Len(messages)) = messages
           /\ messages'[Len(messages')].role = "assistant"
           /\ requests' = requests
           /\ variant = "p0" => status' = "idle"
           /\ variant = "mp" => ~isLoading']_vars

\* convertToWav of main-page.tsx failed for the first recording.
C25_Witness ==
    /\ variant = "mp"
    /\ ev = Ev("handleSendAudio.catch", "convert")
    /\ messages = <<Msg("assistant", AudioFailText)>>
    /\ requests = <<>>
    /\ ~isLoading

\* C26: the loop of playAudioResponse in part_000 gives back the bytes whose
\* hex encoding it is given, for every byte sequence, the empty one included.
C26_P0HexRoundTrip ==
    hexResult.by = "p0" => (~hexResult.threw /\ hexResult.bytes = hexBytes)

\* Three bytes with high and low nibbles that differ went through the loop.
C26_Witness ==
    /\ hexResult.by = "p0"
    /\ hexBytes = <<171, 0, 255>>
    /\ hexString = <<"a", "b", "0", "0", "f", "f">>
    /\ hexResult.bytes = <<171, 0, 255>>

\* C27: the decoder of main-page.tsx, part_001 and part_002 gives back the
\* bytes whose hex encoding it is given and raises no error, for every byte
\* sequence, the empty one included.
C27_HexRoundTrip ==
    hexResult.by = "match" => (~hexResult.threw /\ hexResult.bytes = hexBytes)

\* C29: in the speech-recognition component of part_001, the click that stops
\* listening with a transcript that is not blank appends {user, trimmed
\* transcript}, clears the transcript and issues exactly one POST whose JSON
\* body carries the trimmed transcript; with a blank transcript it issues no
\* request and appends nothing; the click that starts listening clears the
\* transcript.
C29_ToggleListening ==
    [][LET stops == variant = "sr" /\ isListening /\ ~isListening'
           starts == variant = "sr" /\ ~isListening /\ isListening'
           text == Trim(transcript)
           sent == /\ messages' = Append(messages, Msg("user", text))
                   /\ transcript' = <<>>
                   /\ requests' = Append(requests, [kind |-> "json", format |-> "json",
                                                    payload |-> text])
           nothing == messages' = messages /\ requests' = requests
       IN  /\ (stops /\ text # <<>>) => sent
           /\ (stops /\ text = <<>>) => nothing
           /\ starts => (transcript' = <<>> /\ nothing)
      ]_vars

\* Listening was stopped with " hi" in the transcript: the trimmed text is in
\* the log and in the one request, and the transcript is empty.
C29_Witness ==
    /\ ev = Ev("toggleListening", "stop")
    /\ ~isListening
    /\ messages = <<Msg("user", <<"h", "i">>)>>
    /\ requests = <<[kind |-> "json", format |-> "json", payload |-> <<"h", "i">>]>>
    /\ transcript = <<>>
    /\ isLoading

\* The positions of an invocation whose request has been issued.
Issued == {"fetch", "json", "tfetch", "tjson", "mfetch", "mjson", "done"}

\* The step is a mic click or a send click.  The mic click that stops the
\* recording of part_002 runs the component's effect in the same step, so it
\* is told by isRecording.
UserClick ==
    \/ ev'.name \in {"toggleRecording", "startRecording", "toggleListening"}
           /\ ev'.arg \in {"start", "stop"}
    \/ ev' \in {Ev("toggleRecording.catch", "stop"), Ev("handleSendText", "fetch"),
                Ev("handleSendMessage", "fetch")}
    \/ variant = "p2" /\ isRecording /\ ~isRecording'

\* The last step ended a turn with a failure: the catch of a send handler ran,
\* either for the request or its body, or, in main-page.tsx, part_001 and
\* part_002, for the TypeError that the decoding of an absent or empty audio
\* field throws after the reply was appended.
FailedTurn ==
    \/ ev.name \in {"handleSendAudio.catch", "handleSendText.catch",
                    "handleSendMessage.catch"}
    \/ ev.name \in {"handleSendAudio.success", "handleSendText.success"}
           /\ ev.arg = "threw"

\* C28: in every variant no request is retried automatically: a step issues at
\* most one request, a step that handles a failure issues none, every request
\* is the first one of an invocation of a handler, and after a failed turn no
\* request is issued before a new mic click or send click: the step that
\* follows the failure issues a request only if it is such a click.
C28_NoRetry ==
    [][LET failure == \/ ev'.name \in {"handleSendAudio.catch", "handleSendText.catch",
                                        "handleSendMessage.catch", "toggleRecording.catch"}
                      \/ ev'.arg \in {"threw", "denied", "empty"}
           first == \E o \in DOMAIN ops :
                        ops[o].pc \notin Issued /\ ops'[o].pc \in {"fetch", "tfetch", "mfetch"}
       IN  /\ IsPrefix(requests, requests')
           /\ Len(requests') <= Len(requests) + 1
           /\ failure => requests' = requests
           /\ requests' # requests => first
           /\ (FailedTurn /\ requests' # requests) => UserClick
      ]_vars

\* C30: in main-page.tsx, part_001 and part_002, isLoading is true whenever
\* a request, or the conversion to WAV before it, is in flight.
C30_LoadingWhileInFlight ==
    variant \in RecVariants =>
        ((\E o \in DOMAIN ops : ops[o].pc \in {"load", "fetchFile", "run", "fetch", "json",
                                                "tfetch", "tjson"})
            => isLoading)

\* C32: in the recorder component of part_001, while the component is
\* unmounted and the recorder that the cleanup stopped (the one of
\* mediaRecorderRef, with isRecording still true) is stopping, no step issues
\* a request or appends a message.
C32_UnmountSendsNothing ==
    [][(/\ variant = "p1"
        /\ ~mounted
        /\ isRecording
        /\ mediaRecorder # 0
        /\ recorders[mediaRecorder].state = "stopping") =>
           (requests' = requests /\ messages' = messages)]_vars

\* The log holds a user message with no assistant message at a later index.
Unanswered ==
    \E i \in 1..Len(messages) :
        /\ messages[i].role = "user"
        /\ \A j \in (i + 1)..Len(messages) : messages[j].role # "assistant"

\* No request of any send handler is in flight.
NoRequestInFlight ==
    \A o \in DOMAIN ops :
        ops[o].pc \notin {"fetch", "json", "tfetch", "tjson", "mfetch", "mjson"}

\* C31: in every component, while no request is in flight every user message
\* of the log has an assistant message at a later index, and a user message
\* that has none gets one eventually, provided every request settles.
C31_UserAnswered ==
    /\ [](NoRequestInFlight => ~Unanswered)
    /\ Unanswered ~> ~Unanswered

\* A text turn of main-page.tsx failed on a rejected fetch: the typed message
\* is in the log, followed by the failure notice.
C31_Witness ==
    /\ variant \in RecVariants
    /\ ev = Ev("handleSendText.catch", "reject")
    /\ messages = <<Msg("user", <<"h", "i">>), Msg("assistant", TextFailText)>>
    /\ NoRequestInFlight

====
